---- MODULE Spec2Model ----
(***************************************************************************)
(* Conversation state and persistence model of the MINI assistant client:  *)
(* the App component's state (src/App.tsx), the localStorage-backed        *)
(* storageService (src/services/storage.ts) and the backend gateway        *)
(* (src/unnamed/part_000, imported as ./services/gemini).                  *)
(*                                                                         *)
(* Texts are sequences of one-character tokens; the literal                *)
(* "PsychologicalInsight" (with its quotes) is one token.  Numbers of the  *)
(* settings sliders are kept in tenths.  A macrotask of the event loop     *)
(* (an event handler with the render and the effects it causes, or the     *)
(* continuation of an await with the microtasks that follow it) is one     *)
(* action.                                                                 *)
(***************************************************************************)
EXTENDS Integers, Sequences, FiniteSets, TLC

VARIABLES
    phase,              \* "init" before the mount effects, "mounted", "crashed"
    now,                \* Date.now()
    sessions,           \* useState<ChatSession[]>            App.tsx:20
    activeSessionId,    \* useState<string | null>            App.tsx:21
    input,              \* useState('')                       App.tsx:22
    isTyping,           \* App.tsx:23
    isGeneratingImage,  \* App.tsx:24
    errorMsg,           \* App.tsx:26
    settings,           \* App.tsx:27
    sessionsRef,        \* useRef<ChatSession[]>([])          App.tsx:35
    audioSourceRef,     \* useRef<AudioBufferSourceNode>      App.tsx:33
    ls,                 \* window.localStorage, the three records of storage.ts:4-6
    storageMode,        \* how localStorage behaves: "ok", "quota", "denied"
    storageEvents,      \* 'storage' events dispatched to this window, not yet handled
    timers,             \* pending setTimeout(createNewSession, 0) callbacks
    chats,              \* handleSend calls suspended at an await
    images,             \* handleGenerateImage calls suspended at their await
    msgRoom,            \* bound: the messages a run may hold, fixed by its Init
    audioNodes,         \* the AudioBufferSourceNodes created, lines 229-240
    plays               \* handlePlayAudio calls of the narrate button, suspended

vars == <<phase, now, sessions, activeSessionId, input, isTyping, isGeneratingImage,
          errorMsg, settings, sessionsRef, audioSourceRef, ls, storageMode,
          storageEvents, timers, chats, images, msgRoom, audioNodes, plays>>

-----------------------------------------------------------------------------
(* Bounds of the model *)

MaxClock == 3
MaxSessions == 2
MaxMsgs == 2
MaxPending == 2
MaxNodes == 3

-----------------------------------------------------------------------------
(* JavaScript values *)

Null == "<null>"
Undefined == "<undefined>"

\* A value that may be absent (null): <<>> or <<v>>.
None == <<>>
Some(v) == <<v>>

\* The truthiness of a string-or-null value: null, undefined and '' are falsy.
Truthy(v) == v \notin {Null, Undefined, ""}

Min(a, b) == IF a < b THEN a ELSE b

\* Number.prototype.toString for the non-negative integers Date.now() returns.
Digit(d) == CASE d = 0 -> "0" [] d = 1 -> "1" [] d = 2 -> "2" [] d = 3 -> "3"
              [] d = 4 -> "4" [] d = 5 -> "5" [] d = 6 -> "6" [] d = 7 -> "7"
              [] d = 8 -> "8" [] d = 9 -> "9"

RECURSIVE NumToString(_)
NumToString(n) == IF n < 10 THEN Digit(n) ELSE NumToString(n \div 10) \o Digit(n % 10)

IsSpace(c) == c = " "

\* String.prototype.trim
RECURSIVE TrimStart(_)
TrimStart(s) == IF s # <<>> /\ IsSpace(Head(s)) THEN TrimStart(Tail(s)) ELSE s

RECURSIVE TrimEnd(_)
TrimEnd(s) == IF s # <<>> /\ IsSpace(s[Len(s)]) THEN TrimEnd(SubSeq(s, 1, Len(s) - 1)) ELSE s

Trim(s) == TrimEnd(TrimStart(s))

\* String.prototype.substring(0, n)
Substring0(s, n) == SubSeq(s, 1, Min(n, Len(s)))

TitleLen == 30

NewConversation == <<"New Conversation">>

-----------------------------------------------------------------------------
(* types.ts *)

DefaultSettings == [theme |-> "dark", volume |-> 8, playbackSpeed |-> 10]

NewSession(t) ==
    [id |-> NumToString(t), title |-> NewConversation, messages |-> <<>>, createdAt |-> t]

HasId(ss, id) == \E i \in DOMAIN ss : ss[i].id = id

-----------------------------------------------------------------------------
(* JSON.stringify / JSON.parse on the values this program stores.          *)
(* JSON.stringify leaves out the properties whose value is undefined; a    *)
(* stored text is [tag |-> "json", val |-> what parsing it yields], or     *)
(* [tag |-> "corrupt"] for a text JSON.parse rejects, or [tag |-> "absent"]*)
(* for a key localStorage does not hold (getItem returns null).            *)

DropUndefined(o) == [k \in {f \in DOMAIN o : o[f] # Undefined} |-> o[k]]

JSONMessage(m) ==
    IF "groundingSources" \in DOMAIN m
    THEN [m EXCEPT !.groundingSources = [i \in DOMAIN @ |-> DropUndefined(@[i])]]
    ELSE m

JSONSession(s) == [s EXCEPT !.messages = [i \in DOMAIN @ |-> JSONMessage(@[i])]]

JSONSessions(ss) == [i \in DOMAIN ss |-> JSONSession(ss[i])]

StringifySessions(ss) == [tag |-> "json", val |-> JSONSessions(ss)]
StringifySettings(st) == [tag |-> "json", val |-> st]

AbsentSessions == [tag |-> "absent", val |-> <<>>]
CorruptSessions == [tag |-> "corrupt", val |-> <<>>]
AbsentSettings == [tag |-> "absent", val |-> DefaultSettings]
CorruptSettings == [tag |-> "corrupt", val |-> DefaultSettings]

\* JSON.parse: [threw |-> TRUE] on a text that is not JSON.
JSONParse(text) == [threw |-> text.tag # "json", value |-> text.val]

-----------------------------------------------------------------------------
(* window.localStorage.  "quota": setItem throws QuotaExceededError;       *)
(* "denied": every access throws SecurityError.                            *)

SetItemThrows == storageMode \in {"quota", "denied"}
GetItemThrows == storageMode = "denied"
RemoveItemThrows == storageMode = "denied"

-----------------------------------------------------------------------------
(* services/storage.ts.  Each operation yields [threw, ls] or              *)
(* [threw, value]: threw is TRUE when an exception leaves the operation.   *)

saveSessions(l, ss) ==
    [threw |-> FALSE,
     ls |-> IF SetItemThrows THEN l ELSE [l EXCEPT !.sessions = StringifySessions(ss)]]

\* Mutant: the test of the stored text is inverted.
getSessions_Inverted(l) ==
    [threw |-> FALSE,
     value |-> IF GetItemThrows THEN <<>>
               ELSE IF l.sessions.tag = "absent" THEN <<>>
               ELSE IF JSONParse(l.sessions).threw THEN <<>>
               ELSE <<>>]

getSessions(l) ==
    [threw |-> FALSE,
     value |-> IF GetItemThrows THEN <<>>
               ELSE IF l.sessions.tag = "absent" THEN <<>>
               ELSE IF JSONParse(l.sessions).threw THEN <<>>
               ELSE JSONParse(l.sessions).value]

saveActiveSessionId(l, id) ==
    [threw |-> FALSE,
     ls |-> IF Truthy(id)
            THEN (IF SetItemThrows THEN l ELSE [l EXCEPT !.activeId = id])
            ELSE (IF RemoveItemThrows THEN l ELSE [l EXCEPT !.activeId = Null])]

getActiveSessionId(l) ==
    IF GetItemThrows THEN [threw |-> TRUE, value |-> Null]
    ELSE [threw |-> FALSE, value |-> l.activeId]

saveSettings(l, st) ==
    [threw |-> FALSE,
     ls |-> IF SetItemThrows THEN l ELSE [l EXCEPT !.settings = StringifySettings(st)]]

getSettings(l) ==
    [threw |-> FALSE,
     value |-> IF GetItemThrows THEN None
               ELSE IF l.settings.tag = "absent" THEN None
               ELSE IF JSONParse(l.settings).threw THEN None
               ELSE Some(JSONParse(l.settings).value)]

-----------------------------------------------------------------------------
(* Messages, App.tsx *)

UserMsg(t, text) ==
    [id |-> NumToString(t), role |-> "user", text |-> text, timestamp |-> t]

BotMsg(t, cleanedText, psychAnalysis, groundingSources) ==
    [id |-> NumToString(t + 1), role |-> "model", text |-> cleanedText, timestamp |-> t,
     psychAnalysis |-> psychAnalysis, groundingSources |-> groundingSources]

ImgMsg(t, prompt, url) ==
    [id |-> NumToString(t), role |-> "model",
     text |-> <<"Generated image for: \"">> \o prompt \o <<"\"">>,
     imageUrl |-> url, timestamp |-> t]

\* Mutant: the update puts the message in place of the sequence.
AppendMessage_Replace(ss, sid, msg) ==
    [i \in DOMAIN ss |->
        IF ss[i].id = sid THEN [ss[i] EXCEPT !.messages = <<msg>>] ELSE ss[i]]

\* Mutant: the message is put before the others.
AppendMessage_Prepend(ss, sid, msg) ==
    [i \in DOMAIN ss |->
        IF ss[i].id = sid THEN [ss[i] EXCEPT !.messages = <<msg>> \o @] ELSE ss[i]]

\* prev.map(s => s.id === sid ? {...s, messages: [...s.messages, msg]} : s)
AppendMessage(ss, sid, msg) ==
    [i \in DOMAIN ss |->
        IF ss[i].id = sid THEN [ss[i] EXCEPT !.messages = Append(@, msg)] ELSE ss[i]]

\* Mutant: the user message starts the sequence anew.
AppendUserMessage_Reset(ss, sid, msg, text) ==
    [i \in DOMAIN ss |->
        IF ss[i].id = sid
        THEN [ss[i] EXCEPT !.messages = <<msg>>,
                           !.title = IF Len(ss[i].messages) = 0
                                     THEN Substring0(text, TitleLen) ELSE @]
        ELSE ss[i]]

\* The update of handleSend for the user message, which also sets the title.
AppendUserMessage(ss, sid, msg, text) ==
    [i \in DOMAIN ss |->
        IF ss[i].id = sid
        THEN [ss[i] EXCEPT !.messages = Append(@, msg),
                           !.title = IF Len(ss[i].messages) = 0
                                     THEN Substring0(text, TitleLen) ELSE @]
        ELSE ss[i]]

\* sessionsRef.current.find(s => s.id === sid)?.messages.map(...) || []
Find(ss, id) == LET I == {i \in DOMAIN ss : ss[i].id = id}
                IN  IF I = {} THEN None
                    ELSE Some(ss[CHOOSE i \in I : \A j \in I : i <= j])

History(ss, sid) ==
    IF Find(ss, sid) = None THEN <<>>
    ELSE LET ms == Find(ss, sid)[1].messages
         IN  [i \in DOMAIN ms |-> [role |-> ms[i].role, text |-> ms[i].text]]

\* gemini.getResponse: the contents handed to the backend.
Contents(prompt, history) == history \o <<[role |-> "user", text |-> prompt]>>

-----------------------------------------------------------------------------
(* The reply of the backend: psychRegex and the grounding filter.          *)

PI == "\"PsychologicalInsight\""

\* /\{.*"PsychologicalInsight".*?\}/gs has a match that starts at i.
MatchStartsAt(s, i) ==
    /\ s[i] = "{"
    /\ \E j \in (i + 1)..Len(s) : s[j] = PI /\ \E k \in (j + 1)..Len(s) : s[k] = "}"

\* The end of the match that starts at i: the greedy .* takes the last tag a
\* closing brace follows, the lazy .*? the first closing brace after it.
MatchEnd(s, i) ==
    LET J == {j \in (i + 1)..Len(s) : s[j] = PI /\ \E k \in (j + 1)..Len(s) : s[k] = "}"}
        j == CHOOSE x \in J : \A y \in J : y <= x
        K == {k \in (j + 1)..Len(s) : s[k] = "}"}
    IN  CHOOSE x \in K : \A y \in K : x <= y

\* The matches of the global regex from position from on, as <<start, end>> pairs.
RECURSIVE Matches(_, _)
Matches(s, from) ==
    LET I == {i \in from..Len(s) : MatchStartsAt(s, i)}
    IN  IF I = {} THEN <<>>
        ELSE LET i == CHOOSE x \in I : \A y \in I : x <= y
             IN  <<<<i, MatchEnd(s, i)>>>> \o Matches(s, MatchEnd(s, i) + 1)

\* botText.replace(psychRegex, "")
RemoveMatches(s, ms) ==
    LET keep == {i \in DOMAIN s : \A n \in DOMAIN ms : i < ms[n][1] \/ i > ms[n][2]}
        F[i \in 0..Len(s)] ==
            IF i = 0 THEN <<>> ELSE IF i \in keep THEN Append(F[i - 1], s[i]) ELSE F[i - 1]
    IN  F[Len(s)]

psychAnalysisOf(botText) ==
    LET ms == Matches(botText, 1)
    IN  IF ms = <<>> THEN <<>> ELSE SubSeq(botText, ms[1][1], ms[1][2])

\* Mutant: the text is trimmed whether or not a fragment was found.
cleanedTextOf_Trimmed(botText) ==
    LET ms == Matches(botText, 1)
    IN  IF ms = <<>> THEN Trim(botText) ELSE Trim(RemoveMatches(botText, ms))

cleanedTextOf(botText) ==
    LET ms == Matches(botText, 1)
    IN  IF ms = <<>> THEN botText ELSE Trim(RemoveMatches(botText, ms))

Prop(o, k) == IF k \in DOMAIN o THEN o[k] ELSE Undefined

\* Mutant: the chunks are mapped without being filtered.
groundingSourcesOf_Unfiltered(chunks) ==
    [i \in DOMAIN chunks |->
        IF "web" \in DOMAIN chunks[i]
        THEN [title |-> Prop(chunks[i].web, "title"), uri |-> Prop(chunks[i].web, "uri")]
        ELSE [title |-> Undefined, uri |-> Undefined]]

\* result.grounding.filter(chunk => chunk.web).map(...)
groundingSourcesOf(chunks) ==
    LET F[i \in 0..Len(chunks)] ==
            IF i = 0 THEN <<>>
            ELSE IF "web" \in DOMAIN chunks[i]
                 THEN Append(F[i - 1], [title |-> Prop(chunks[i].web, "title"),
                                        uri |-> Prop(chunks[i].web, "uri")])
                 ELSE F[i - 1]
    IN  F[Len(chunks)]

-----------------------------------------------------------------------------
(* The environment: what the user types, what the backend answers, what a  *)
(* previous run or another tab left in localStorage.                       *)

InputTexts == { <<" ">>, <<"h", "i">> }

PlainReply == [text |-> <<"o", "k">>, grounding |-> <<>>]

TaggedReply ==
    [text |-> <<"o", "k", " ", "{", PI, "}">>,
     grounding |-> << [web |-> [uri |-> "a"]], [retrievedContext |-> "c"],
                      [web |-> [uri |-> "b", title |-> "B"]] >>]

\* Replies built as prose, tagged fragment, prose.  Prose may hold braces.
ProsePrefixes == { <<>>, <<"o", "k", " ">>, <<"s", "e", "t", " ", "{", "x", "}", " ">> }

Fragments == { <<"{", PI, "}">>, <<"{", PI, ":", "\"calm\"", "}">> }

ProseSuffixes == { <<>>, <<" ", "b", "y", "e">>, <<" ", "{", "y", "}">> }

TaggedTexts ==
    { p \o f \o x : p \in ProsePrefixes, f \in Fragments, x \in ProseSuffixes }

\* Replies without a tagged fragment: plain, padded, with braces, with the
\* tag outside of any braces, with an opening brace that is never closed,
\* with the braces the wrong way round, empty.
UntaggedTexts ==
    { <<"o", "k">>, <<" ", "o", "k", " ">>, <<"{", "x", "}">>, <<PI, " ", "{", "}">>,
      <<"{", PI>>, <<"}", PI, "{">>, <<>> }

\* response.candidates[0].groundingMetadata.groundingChunks
ChunkLists ==
    { <<>>,
      << [retrievedContext |-> "c"] >>,
      << [web |-> [uri |-> "a"]], [retrievedContext |-> "c"],
         [web |-> [uri |-> "b", title |-> "B"]] >>,
      << [web |-> [uri |-> "b", title |-> "B"]], [web |-> [uri |-> "a"]],
         [web |-> [uri |-> "b", title |-> "B"]] >> }

Replies ==
    { [text |-> t, grounding |-> <<>>] : t \in TaggedTexts \cup UntaggedTexts }
        \cup { [text |-> <<"o", "k">>, grounding |-> g] : g \in ChunkLists }

\* error?.message of a rejected backend call
ErrorMessages == { Undefined, "Service unavailable" }

ImageUrls == { "data:image/png;base64,AAAA" }

OtherSettings == [theme |-> "light", volume |-> 5, playbackSpeed |-> 15]

\* A session of an earlier run, or of another tab.
OldSession ==
    [id |-> "0", title |-> <<"h", "i">>, messages |-> <<UserMsg(0, <<"h", "i">>)>>,
     createdAt |-> 0]
OlderSession == [id |-> "1", title |-> NewConversation, messages |-> <<>>, createdAt |-> 1]

EmptyStore == [sessions |-> AbsentSessions, activeId |-> Null, settings |-> AbsentSettings]

FullStore ==
    [sessions |-> StringifySessions(<<OlderSession, OldSession>>), activeId |-> "0",
     settings |-> StringifySettings(OtherSettings)]

InitialStores ==
    { EmptyStore, FullStore,
      [sessions |-> StringifySessions(<<OldSession>>), activeId |-> "7",
       settings |-> CorruptSettings],
      [sessions |-> CorruptSessions, activeId |-> Null,
       settings |-> StringifySettings(OtherSettings)] }

\* The store and the behaviour of localStorage the application starts with.
InitialStorage ==
    ({"ok"} \X InitialStores) \cup {<<"quota", FullStore>>, <<"denied", EmptyStore>>}

\* What another tab of the same application writes under the sessions key.
ExternalSessionTexts ==
    { StringifySessions(<<>>), StringifySessions(<<NewSession(2)>>), CorruptSessions }

ExternalSettingsTexts == { StringifySettings(OtherSettings), CorruptSettings }

-----------------------------------------------------------------------------
(* Init: the component as constructed (the useState and useRef initial     *)
(* values), before its mount effects have run.                             *)

Init ==
    /\ phase = "init"
    /\ now = 2
    /\ sessions = <<>>
    /\ activeSessionId = Null
    /\ input = <<>>
    /\ isTyping = FALSE
    /\ isGeneratingImage = FALSE
    /\ errorMsg = Null
    /\ settings = DefaultSettings
    /\ sessionsRef = <<>>
    /\ audioSourceRef = None
    /\ \E p \in InitialStorage : storageMode = p[1] /\ ls = p[2]
    /\ storageEvents = <<>>
    /\ timers = 0
    /\ chats = <<>>
    /\ images = <<>>
    /\ msgRoom = MaxMsgs
    /\ audioNodes = <<>>
    /\ plays = <<>>

-----------------------------------------------------------------------------
(* The persistence effects, run after a render in their declared order:    *)
(* the sessions effect when setSessions was given a new array, the         *)
(* active-id effect when the id changed, the settings effect when          *)
(* setSettings was given a new object.                                     *)

\* Mutant: the sessions effect depends on the active id instead of the sessions.
RunEffects_ActiveDependency(l, ss, sessionsSet, oldActive, act, st, settingsSet) ==
    LET l1 == IF act # oldActive THEN saveSessions(l, ss).ls ELSE l
        l2 == IF act # oldActive THEN saveActiveSessionId(l1, act).ls ELSE l1
    IN  IF settingsSet THEN saveSettings(l2, st).ls ELSE l2

RunEffects(l, ss, sessionsSet, oldActive, act, st, settingsSet) ==
    LET l1 == IF sessionsSet THEN saveSessions(l, ss).ls ELSE l
        l2 == IF act # oldActive THEN saveActiveSessionId(l1, act).ls ELSE l1
    IN  IF settingsSet THEN saveSettings(l2, st).ls ELSE l2

Commit(ss, sessionsSet, act, st, settingsSet) ==
    /\ sessions' = ss
    /\ activeSessionId' = act
    /\ settings' = st
    /\ sessionsRef' = IF sessionsSet THEN ss ELSE sessionsRef
    /\ ls' = RunEffects(ls, ss, sessionsSet, activeSessionId, act, st, settingsSet)

Pending == Len(chats) + Len(images) + Len(plays) + Len(storageEvents) + timers

-----------------------------------------------------------------------------
(* Startup: the mount effects of App, in their declared order.             *)

\* The effects of lines 38-50 at mount: they save the initial state.
MountSaves(l) ==
    saveSettings(saveActiveSessionId(saveSessions(l, sessions).ls, activeSessionId).ls,
                 settings).ls

\* The active id the initial load chooses for a non-empty stored collection.
LoadedActiveId(savedSessions, savedActiveId) ==
    IF Truthy(savedActiveId) /\ HasId(savedSessions, savedActiveId)
    THEN savedActiveId ELSE savedSessions[1].id

Mount ==
    /\ phase = "init"
    /\ LET l == MountSaves(ls)
           savedSessions == getSessions(l).value
           savedSettings == getSettings(l).value
           savedActive == getActiveSessionId(l)
           st == IF savedSettings # None THEN savedSettings[1] ELSE settings
           ss == IF Len(savedSessions) > 0 THEN savedSessions
                 ELSE <<NewSession(now)>> \o sessions
           act == IF Len(savedSessions) > 0
                  THEN LoadedActiveId(savedSessions, savedActive.value)
                  ELSE NumToString(now)
       IN  IF savedActive.threw
           THEN /\ phase' = "crashed"
                /\ ls' = l
                /\ UNCHANGED <<sessions, activeSessionId, settings, sessionsRef>>
           ELSE /\ phase' = "mounted"
                /\ sessions' = ss
                /\ activeSessionId' = act
                /\ settings' = st
                /\ sessionsRef' = ss
                /\ ls' = RunEffects(l, ss, TRUE, activeSessionId, act, st,
                                    savedSettings # None)
    /\ UNCHANGED <<now, input, isTyping, isGeneratingImage, errorMsg, audioSourceRef,
                   storageMode, storageEvents, timers, chats, images, msgRoom, audioNodes, plays>>

\* Time passes.
Tick ==
    /\ now < MaxClock
    /\ now' = now + 1
    /\ UNCHANGED <<phase, sessions, activeSessionId, input, isTyping, isGeneratingImage,
                   errorMsg, settings, sessionsRef, audioSourceRef, ls, storageMode,
                   storageEvents, timers, chats, images, msgRoom, audioNodes, plays>>

-----------------------------------------------------------------------------
(* The session repository.                                                 *)

\* createNewSession, lines 124-134
createNewSession ==
    Commit(<<NewSession(now)>> \o sessions, TRUE, NumToString(now), settings, FALSE)

CreateSession ==
    /\ phase = "mounted"
    /\ Len(sessions) < MaxSessions
    /\ createNewSession
    /\ UNCHANGED <<phase, now, input, isTyping, isGeneratingImage, errorMsg,
                   audioSourceRef, storageMode, storageEvents, timers, chats, images, msgRoom, audioNodes, plays>>

\* The callback of setTimeout(createNewSession, 0)
DeferredCreate ==
    /\ phase = "mounted"
    /\ timers > 0
    /\ timers' = timers - 1
    /\ createNewSession
    /\ UNCHANGED <<phase, now, input, isTyping, isGeneratingImage, errorMsg,
                   audioSourceRef, storageMode, storageEvents, chats, images, msgRoom, audioNodes, plays>>

\* The sidebar's onClick={() => setActiveSessionId(s.id)}, line 592
SelectSession(i) ==
    /\ phase = "mounted"
    /\ i \in DOMAIN sessions
    /\ Commit(sessions, FALSE, sessions[i].id, settings, FALSE)
    /\ UNCHANGED <<phase, now, input, isTyping, isGeneratingImage, errorMsg,
                   audioSourceRef, storageMode, storageEvents, timers, chats, images, msgRoom, audioNodes, plays>>

\* prev.filter(s => s.id !== id)
Filtered(ss, id) ==
    LET F[i \in 0..Len(ss)] ==
            IF i = 0 THEN <<>>
            ELSE IF ss[i].id # id THEN Append(F[i - 1], ss[i]) ELSE F[i - 1]
    IN  F[Len(ss)]

\* deleteSession(id), lines 136-146: the pointer it leaves.
ActiveAfterDelete(ss, act, id) ==
    IF act = id
    THEN (IF Len(Filtered(ss, id)) > 0 THEN Filtered(ss, id)[1].id ELSE Null)
    ELSE act

\* deleteSession(id): whether it schedules createNewSession.
SchedulesCreate(ss, act, id) == act = id /\ Len(Filtered(ss, id)) = 0

DeleteSession(i) ==
    /\ phase = "mounted"
    /\ i \in DOMAIN sessions
    /\ LET id == sessions[i].id
       IN  /\ SchedulesCreate(sessions, activeSessionId, id) => Pending < MaxPending
           /\ Commit(Filtered(sessions, id), TRUE,
                     ActiveAfterDelete(sessions, activeSessionId, id), settings, FALSE)
           /\ timers' = IF SchedulesCreate(sessions, activeSessionId, id)
                        THEN timers + 1 ELSE timers
    /\ UNCHANGED <<phase, now, input, isTyping, isGeneratingImage, errorMsg,
                   audioSourceRef, storageMode, storageEvents, chats, images, msgRoom, audioNodes, plays>>

-----------------------------------------------------------------------------
(* The conversation controller: handleSend, lines 148-212.                 *)

MessagesOf(ss, sid) == IF Find(ss, sid) = None THEN <<>> ELSE Find(ss, sid)[1].messages

\* The messages held by the collection, and those the requests in flight may
\* still append: the specifications bound their sum.
RECURSIVE TotalMessages(_)
TotalMessages(ss) ==
    IF ss = <<>> THEN 0 ELSE Len(Head(ss).messages) + TotalMessages(Tail(ss))

ToCome ==
    Cardinality({i \in DOMAIN chats : chats[i].phase = "chat"}) + Len(images)

\* Room for n more messages.
Room(n) == TotalMessages(sessions) + ToCome + n <= msgRoom

\* const text = textOverride || input
TextOf(textOverride) == IF textOverride # <<>> THEN textOverride ELSE input

\* Mutant: the guard forgets the active session.
SendPreconditions_TextOnly(text) == Trim(text) # <<>>

\* if (!text.trim() || !activeSessionId) return
SendPreconditions(text) == Trim(text) # <<>> /\ Truthy(activeSessionId)

GenericChatError == "Something went wrong. Please check your connection."

HandleSend(textOverride) ==
    LET text == TextOf(textOverride)
    IN  IF ~SendPreconditions(text)
        THEN UNCHANGED vars
        ELSE /\ Pending < MaxPending
             /\ Room(2)
             /\ errorMsg' = Null
             /\ Commit(AppendUserMessage(sessions, activeSessionId, UserMsg(now, text), text),
                       TRUE, activeSessionId, settings, FALSE)
             /\ input' = <<>>
             /\ isTyping' = TRUE
             /\ chats' = Append(chats,
                    [sid |-> activeSessionId, phase |-> "chat", settings |-> settings,
                     userId |-> NumToString(now),
                     contents |-> Contents(text, History(sessionsRef, activeSessionId)),
                     result |-> None])
             /\ UNCHANGED <<phase, now, isGeneratingImage, audioSourceRef, storageMode,
                            storageEvents, timers, images, msgRoom, audioNodes, plays>>

\* The textarea's Enter key, line 543: handleSend()
EnterKey ==
    /\ phase = "mounted"
    /\ HandleSend(<<>>)

\* The send button, lines 556-558: disabled={isTyping || !input.trim()}
SendButton ==
    /\ phase = "mounted"
    /\ ~isTyping
    /\ Trim(input) # <<>>
    /\ HandleSend(<<>>)

\* The first of the quick prompts of line 387, character by character.
QuickPrompts ==
    { <<
       "S", "h", "o", "w", " ", "m", "e", " ", "t", "h", "e", " ", "m",
       "o", "s", "t", " ", "i", "m", "p", "a", "c", "t", "f", "u", "l",
       " ", "n", "e", "w", "s", " ", "o", "f", " ", "t", "h", "e", " ",
       "h", "o", "u", "r", "." >> }

\* A quick-prompt button, line 390, shown while the current session has no
\* message: setInput(item.p); handleSend(item.p)
QuickPrompt(p) ==
    /\ phase = "mounted"
    /\ MessagesOf(sessions, activeSessionId) = <<>>
    /\ IF SendPreconditions(TextOf(p))
       THEN HandleSend(p)
       ELSE /\ input' = p
            /\ UNCHANGED <<phase, now, sessions, activeSessionId, isTyping, isGeneratingImage,
                           errorMsg, settings, sessionsRef, audioSourceRef, ls, storageMode,
                           storageEvents, timers, chats, images, msgRoom, audioNodes, plays>>

\* recognition.onresult, lines 294-298: setInput(transcript); handleSend(transcript)
VoiceResult(transcript) ==
    /\ phase = "mounted"
    /\ IF SendPreconditions(TextOf(transcript))
       THEN HandleSend(transcript)
       ELSE /\ input' = transcript
            /\ UNCHANGED <<phase, now, sessions, activeSessionId, isTyping, isGeneratingImage,
                           errorMsg, settings, sessionsRef, audioSourceRef, ls, storageMode,
                           storageEvents, timers, chats, images, msgRoom, audioNodes, plays>>

\* The retry button of the error panel, line 503: resend the last message of
\* the current session when it is a user message.
Retry ==
    /\ phase = "mounted"
    /\ Truthy(errorMsg)
    /\ LET ms == MessagesOf(sessions, activeSessionId)
       IN  IF ms # <<>> /\ ms[Len(ms)].role = "user"
           THEN HandleSend(ms[Len(ms)].text)
           ELSE UNCHANGED vars

RemoveAt(q, i) == SubSeq(q, 1, i - 1) \o SubSeq(q, i + 1, Len(q))

\* gemini.getResponse resolves: lines 175-204, up to the await inside
\* handlePlayAudio.  The suspended call keeps its local `result`.
ChatResolve(i, reply) ==
    /\ phase = "mounted"
    /\ i \in DOMAIN chats
    /\ chats[i].phase = "chat"
    /\ Commit(AppendMessage(sessions, chats[i].sid,
                            BotMsg(now, cleanedTextOf(reply.text), psychAnalysisOf(reply.text),
                                   groundingSourcesOf(reply.grounding))),
              TRUE, activeSessionId, settings, FALSE)
    /\ chats' = [chats EXCEPT ![i].phase = "tts", ![i].result = Some(reply)]
    /\ UNCHANGED <<phase, now, input, isTyping, isGeneratingImage, errorMsg, audioSourceRef,
                   storageMode, storageEvents, timers, images, msgRoom, audioNodes, plays>>

\* gemini.getResponse resolves and the continuation of lines 175-204 has run,
\* but not yet the render its setSessions schedules: an update made outside
\* of an event handler is rendered in a later task.  sessions holds the
\* update as React has queued it; sessionsRef and the store, which the effect
\* of lines 38-41 writes after the render, are as they were.
ChatResolveQueued(i, reply) ==
    /\ phase = "mounted"
    /\ i \in DOMAIN chats
    /\ chats[i].phase = "chat"
    /\ sessions' = AppendMessage(sessions, chats[i].sid,
                                 BotMsg(now, cleanedTextOf(reply.text),
                                        psychAnalysisOf(reply.text),
                                        groundingSourcesOf(reply.grounding)))
    /\ chats' = [chats EXCEPT ![i].phase = "tts", ![i].result = Some(reply)]
    /\ UNCHANGED <<phase, now, activeSessionId, input, isTyping, isGeneratingImage, errorMsg,
                   settings, sessionsRef, audioSourceRef, ls, storageMode, storageEvents,
                   timers, images, msgRoom, audioNodes, plays>>

\* The scheduled render and the effect of lines 38-41 after it.
FlushRender ==
    /\ phase = "mounted"
    /\ sessionsRef # sessions
    /\ Commit(sessions, TRUE, activeSessionId, settings, FALSE)
    /\ UNCHANGED <<phase, now, input, isTyping, isGeneratingImage, errorMsg, audioSourceRef,
                   storageMode, storageEvents, timers, chats, images, msgRoom, audioNodes,
                   plays>>

\* Mutant: no fallback for an error without a message.
ChatErrorText_NoFallback(message) == message

\* setErrorMsg(error?.message || "Something went wrong. ...")
ChatErrorText(message) == IF Truthy(message) THEN message ELSE GenericChatError

\* gemini.getResponse rejects: the catch and the finally of lines 206-211.
ChatReject(i, message) ==
    /\ phase = "mounted"
    /\ i \in DOMAIN chats
    /\ chats[i].phase = "chat"
    /\ errorMsg' = ChatErrorText(message)
    /\ isTyping' = FALSE
    /\ chats' = RemoveAt(chats, i)
    /\ UNCHANGED <<phase, now, sessions, activeSessionId, input, isGeneratingImage, settings,
                   sessionsRef, audioSourceRef, ls, storageMode, storageEvents, timers, images, msgRoom, audioNodes, plays>>

\* The node of a playback: its playback rate, its gain, whether it sounds.
AudioNode(st) == [rate |-> st.playbackSpeed, gain |-> st.volume, playing |-> TRUE]

\* if (audioSourceRef.current) { try { audioSourceRef.current.stop() } catch(e){} }
\* The reference holds the position of its node in audioNodes.
Stopped(nodes, ref) ==
    IF ref = None THEN nodes ELSE [nodes EXCEPT ![ref[1]].playing = FALSE]

\* Mutant: the playback before is left to sound.
NodesAfterSpeech_NoStop(nodes, ref, st, outcome) ==
    IF outcome = "audio" THEN Append(nodes, AudioNode(st)) ELSE nodes

\* handlePlayAudio from its await on, lines 216-244, with the settings of the
\* render that created it: the nodes of the audio context it leaves.
\* decodeAudioData has no await of its own, so that the call runs from the
\* payload to source.start(0) without another task in between.
NodesAfterSpeech(nodes, ref, st, outcome) ==
    IF outcome = "audio" THEN Append(Stopped(nodes, ref), AudioNode(st)) ELSE nodes

\* audioSourceRef.current = source, line 239
SourceAfterSpeech(nodes, ref, outcome) ==
    IF outcome = "audio" THEN Some(Len(nodes) + 1) ELSE ref

\* Mutant: a failed speech request is surfaced like a failed chat call.
SpeechSettles_Surfaced(i, outcome) ==
    /\ phase = "mounted"
    /\ i \in DOMAIN chats
    /\ chats[i].phase = "tts"
    /\ outcome = "audio" => Len(audioNodes) < MaxNodes
    /\ audioNodes' = NodesAfterSpeech(audioNodes, audioSourceRef, chats[i].settings, outcome)
    /\ audioSourceRef' = SourceAfterSpeech(audioNodes, audioSourceRef, outcome)
    /\ errorMsg' = IF outcome = "fail" THEN GenericChatError ELSE errorMsg
    /\ isTyping' = FALSE
    /\ chats' = RemoveAt(chats, i)
    /\ UNCHANGED <<phase, now, sessions, activeSessionId, input, isGeneratingImage,
                   settings, sessionsRef, ls, storageMode, storageEvents, timers, images,
                   msgRoom, plays>>

\* gemini.textToSpeech settles ("audio": a payload that decodes; "none": no
\* payload; "fail": it rejects, or decoding throws), then the finally of handleSend.
SpeechSettles(i, outcome) ==
    /\ phase = "mounted"
    /\ i \in DOMAIN chats
    /\ chats[i].phase = "tts"
    /\ outcome = "audio" => Len(audioNodes) < MaxNodes
    /\ audioNodes' = NodesAfterSpeech(audioNodes, audioSourceRef, chats[i].settings, outcome)
    /\ audioSourceRef' = SourceAfterSpeech(audioNodes, audioSourceRef, outcome)
    /\ isTyping' = FALSE
    /\ chats' = RemoveAt(chats, i)
    /\ UNCHANGED <<phase, now, sessions, activeSessionId, input, isGeneratingImage, errorMsg,
                   settings, sessionsRef, ls, storageMode, storageEvents, timers, images,
                   msgRoom, plays>>

\* The narrate button of a model message of the current session, line 448:
\* handlePlayAudio(msg.text), suspended at gemini.textToSpeech.
PlayMessage(k) ==
    /\ phase = "mounted"
    /\ k \in DOMAIN MessagesOf(sessions, activeSessionId)
    /\ MessagesOf(sessions, activeSessionId)[k].role = "model"
    /\ Pending < MaxPending
    /\ plays' = Append(plays, [settings |-> settings,
                               text |-> MessagesOf(sessions, activeSessionId)[k].text])
    /\ UNCHANGED <<phase, now, sessions, activeSessionId, input, isTyping, isGeneratingImage,
                   errorMsg, settings, sessionsRef, audioSourceRef, ls, storageMode,
                   storageEvents, timers, chats, images, msgRoom, audioNodes>>

\* The gemini.textToSpeech of a narrate request settles.
PlaySettles(j, outcome) ==
    /\ phase = "mounted"
    /\ j \in DOMAIN plays
    /\ outcome = "audio" => Len(audioNodes) < MaxNodes
    /\ audioNodes' = NodesAfterSpeech(audioNodes, audioSourceRef, plays[j].settings, outcome)
    /\ audioSourceRef' = SourceAfterSpeech(audioNodes, audioSourceRef, outcome)
    /\ plays' = RemoveAt(plays, j)
    /\ UNCHANGED <<phase, now, sessions, activeSessionId, input, isTyping, isGeneratingImage,
                   errorMsg, settings, sessionsRef, ls, storageMode, storageEvents, timers,
                   chats, images, msgRoom>>

\* A node that sounds reaches the end of its buffer.
SourceEnded(k) ==
    /\ phase = "mounted"
    /\ k \in DOMAIN audioNodes
    /\ audioNodes[k].playing
    /\ audioNodes' = [audioNodes EXCEPT ![k].playing = FALSE]
    /\ UNCHANGED <<phase, now, sessions, activeSessionId, input, isTyping, isGeneratingImage,
                   errorMsg, settings, sessionsRef, audioSourceRef, ls, storageMode,
                   storageEvents, timers, chats, images, msgRoom, plays>>

\* The textarea's onChange, line 542
SetInput(t) ==
    /\ phase = "mounted"
    /\ input' = t
    /\ UNCHANGED <<phase, now, sessions, activeSessionId, isTyping, isGeneratingImage,
                   errorMsg, settings, sessionsRef, audioSourceRef, ls, storageMode,
                   storageEvents, timers, chats, images, msgRoom, audioNodes, plays>>

\* The error panel's dismiss button, line 488
DismissError ==
    /\ phase = "mounted"
    /\ errorMsg # Null
    /\ errorMsg' = Null
    /\ UNCHANGED <<phase, now, sessions, activeSessionId, input, isTyping, isGeneratingImage,
                   settings, sessionsRef, audioSourceRef, ls, storageMode, storageEvents,
                   timers, chats, images, msgRoom, audioNodes, plays>>

-----------------------------------------------------------------------------
(* Image generation: handleGenerateImage, lines 254-281.                   *)

ImageFailed == "Failed to generate image. Please try a different prompt."
GenericImageError == "Image generation failed."

\* The image button, lines 531-533: disabled={isGeneratingImage || !input.trim()}
GenerateImage ==
    /\ phase = "mounted"
    /\ ~isGeneratingImage
    /\ Trim(input) # <<>>
    /\ IF ~(Trim(input) # <<>> /\ Truthy(activeSessionId))
       THEN UNCHANGED vars
       ELSE /\ Pending < MaxPending
            /\ Room(1)
            /\ errorMsg' = Null
            /\ isGeneratingImage' = TRUE
            /\ images' = Append(images, [sid |-> activeSessionId, prompt |-> input])
            /\ UNCHANGED <<phase, now, sessions, activeSessionId, input, isTyping, settings,
                           sessionsRef, audioSourceRef, ls, storageMode, storageEvents,
                           timers, chats, msgRoom, audioNodes, plays>>

\* Mutant: the message is appended whatever generateImage returned.
ImageResolve_AppendsAlways(i, url) ==
    /\ phase = "mounted"
    /\ i \in DOMAIN images
    /\ Commit(AppendMessage(sessions, images[i].sid, ImgMsg(now, images[i].prompt, url)),
              TRUE, activeSessionId, settings, FALSE)
    /\ input' = <<>>
    /\ UNCHANGED errorMsg
    /\ isGeneratingImage' = FALSE
    /\ images' = RemoveAt(images, i)
    /\ UNCHANGED <<phase, now, isTyping, audioSourceRef, storageMode, storageEvents,
                   timers, chats, msgRoom, audioNodes, plays>>

\* gemini.generateImage resolves with a data URI or with null.
ImageResolve(i, url) ==
    /\ phase = "mounted"
    /\ i \in DOMAIN images
    /\ IF Truthy(url)
       THEN /\ Commit(AppendMessage(sessions, images[i].sid,
                                    ImgMsg(now, images[i].prompt, url)),
                      TRUE, activeSessionId, settings, FALSE)
            /\ input' = <<>>
            /\ UNCHANGED errorMsg
       ELSE /\ errorMsg' = ImageFailed
            /\ UNCHANGED <<sessions, activeSessionId, settings, sessionsRef, ls, input>>
    /\ isGeneratingImage' = FALSE
    /\ images' = RemoveAt(images, i)
    /\ UNCHANGED <<phase, now, isTyping, audioSourceRef, storageMode, storageEvents,
                   timers, chats, msgRoom, audioNodes, plays>>

ImageReject(i, message) ==
    /\ phase = "mounted"
    /\ i \in DOMAIN images
    /\ errorMsg' = IF Truthy(message) THEN message ELSE GenericImageError
    /\ isGeneratingImage' = FALSE
    /\ images' = RemoveAt(images, i)
    /\ UNCHANGED <<phase, now, sessions, activeSessionId, input, isTyping, settings,
                   sessionsRef, audioSourceRef, ls, storageMode, storageEvents, timers, chats, msgRoom, audioNodes, plays>>

-----------------------------------------------------------------------------
(* Settings, lines 334-352.                                                *)

ToggleTheme ==
    /\ phase = "mounted"
    /\ Commit(sessions, FALSE, activeSessionId,
              [settings EXCEPT !.theme = IF @ = "dark" THEN "light" ELSE "dark"], TRUE)
    /\ UNCHANGED <<phase, now, input, isTyping, isGeneratingImage, errorMsg, audioSourceRef,
                   storageMode, storageEvents, timers, chats, images, msgRoom, audioNodes, plays>>

\* The sliders, with the positions the user moves them to.
SetAudioSettings(st) ==
    /\ phase = "mounted"
    /\ Commit(sessions, FALSE, activeSessionId,
              [settings EXCEPT !.volume = st.volume, !.playbackSpeed = st.playbackSpeed], TRUE)
    /\ UNCHANGED <<phase, now, input, isTyping, isGeneratingImage, errorMsg, audioSourceRef,
                   storageMode, storageEvents, timers, chats, images, msgRoom, audioNodes, plays>>

-----------------------------------------------------------------------------
(* Other tabs, and the listeners of lines 71-88.                           *)

SessionsKey == "mini_ai_sessions"
SettingsKey == "mini_ai_settings"

\* Another tab sets the sessions record; the browser dispatches a storage event.
ExternalSessionsWrite(text) ==
    /\ phase = "mounted"
    /\ storageMode = "ok"
    /\ Pending < MaxPending
    /\ ls' = [ls EXCEPT !.sessions = text]
    /\ storageEvents' = Append(storageEvents, [key |-> SessionsKey, newSessions |-> text])
    /\ UNCHANGED <<phase, now, sessions, activeSessionId, input, isTyping, isGeneratingImage,
                   errorMsg, settings, sessionsRef, audioSourceRef, storageMode, timers,
                   chats, images, msgRoom, audioNodes, plays>>

ExternalSettingsWrite(text) ==
    /\ phase = "mounted"
    /\ storageMode = "ok"
    /\ Pending < MaxPending
    /\ ls' = [ls EXCEPT !.settings = text]
    /\ storageEvents' = Append(storageEvents, [key |-> SettingsKey, newSettings |-> text])
    /\ UNCHANGED <<phase, now, sessions, activeSessionId, input, isTyping, isGeneratingImage,
                   errorMsg, settings, sessionsRef, audioSourceRef, storageMode, timers,
                   chats, images, msgRoom, audioNodes, plays>>

\* Mutant: the listener merges the written collection into the one in memory.
HandleStorageEvent_Merge ==
    /\ phase = "mounted"
    /\ storageEvents # <<>>
    /\ LET e == Head(storageEvents)
       IN  IF e.key = SessionsKey
           THEN IF JSONParse(e.newSessions).threw
                THEN UNCHANGED <<sessions, activeSessionId, settings, sessionsRef, ls>>
                ELSE Commit(JSONParse(e.newSessions).value \o sessions, TRUE,
                            activeSessionId, settings, FALSE)
           ELSE IF JSONParse(e.newSettings).threw
                THEN UNCHANGED <<sessions, activeSessionId, settings, sessionsRef, ls>>
                ELSE Commit(sessions, FALSE, activeSessionId,
                            JSONParse(e.newSettings).value, TRUE)
    /\ storageEvents' = Tail(storageEvents)
    /\ UNCHANGED <<phase, now, input, isTyping, isGeneratingImage, errorMsg, audioSourceRef,
                   storageMode, timers, chats, images, msgRoom, audioNodes, plays>>

\* handleStorageEvent, lines 75-82.  A text JSON.parse rejects makes the
\* listener throw before it sets anything.
HandleStorageEvent ==
    /\ phase = "mounted"
    /\ storageEvents # <<>>
    /\ LET e == Head(storageEvents)
       IN  IF e.key = SessionsKey
           THEN IF JSONParse(e.newSessions).threw
                THEN UNCHANGED <<sessions, activeSessionId, settings, sessionsRef, ls>>
                ELSE Commit(JSONParse(e.newSessions).value, TRUE, activeSessionId,
                            settings, FALSE)
           ELSE IF JSONParse(e.newSettings).threw
                THEN UNCHANGED <<sessions, activeSessionId, settings, sessionsRef, ls>>
                ELSE Commit(sessions, FALSE, activeSessionId,
                            JSONParse(e.newSettings).value, TRUE)
    /\ storageEvents' = Tail(storageEvents)
    /\ UNCHANGED <<phase, now, input, isTyping, isGeneratingImage, errorMsg, audioSourceRef,
                   storageMode, timers, chats, images, msgRoom, audioNodes, plays>>

\* handleGlobalSave, lines 71-73, on beforeunload and when the tab is hidden.
GlobalSave ==
    /\ phase = "mounted"
    /\ ls' = saveSessions(ls, sessionsRef).ls
    /\ UNCHANGED <<phase, now, sessions, activeSessionId, input, isTyping, isGeneratingImage,
                   errorMsg, settings, sessionsRef, audioSourceRef, storageMode,
                   storageEvents, timers, chats, images, msgRoom, audioNodes, plays>>

-----------------------------------------------------------------------------

\* The conversation core: sessions, the controller and the store.  Speech
\* yields no playable audio here and the settings are not changed by hand;
\* SpecTabs has the settings controls.
Next ==
    \/ Mount
    \/ Tick
    \/ CreateSession
    \/ DeferredCreate
    \/ \E i \in 1..MaxSessions : SelectSession(i)
    \/ \E i \in 1..MaxSessions : DeleteSession(i)
    \/ \E t \in InputTexts : SetInput(t)
    \/ EnterKey
    \/ SendButton
    \/ \E i \in 1..MaxPending : ChatResolve(i, TaggedReply)
    \/ \E i \in 1..MaxPending, m \in ErrorMessages : ChatReject(i, m)
    \/ \E i \in 1..MaxPending, o \in {"none", "fail"} : SpeechSettles(i, o)
    \/ DismissError
    \/ GenerateImage
    \/ \E i \in 1..MaxPending, u \in ImageUrls \cup {Null} : ImageResolve(i, u)
    \/ \E i \in 1..MaxPending, m \in ErrorMessages : ImageReject(i, m)
    \/ \E t \in ExternalSessionTexts : ExternalSessionsWrite(t)
    \/ HandleStorageEvent
    \/ GlobalSave

Spec == Init /\ [][Next]_vars

\* A sendUserTurn in flight among deletions, selections, image generations
\* and writes of other tabs.
NextTurn ==
    \/ Mount
    \/ Tick
    \/ DeferredCreate
    \/ \E i \in 1..MaxSessions : SelectSession(i)
    \/ \E i \in 1..MaxSessions : DeleteSession(i)
    \/ \E t \in InputTexts : SetInput(t)
    \/ EnterKey
    \/ SendButton
    \/ \E i \in 1..MaxPending : ChatResolve(i, TaggedReply)
    \/ \E i \in 1..MaxPending, m \in ErrorMessages : ChatReject(i, m)
    \/ \E i \in 1..MaxPending, o \in {"none", "fail"} : SpeechSettles(i, o)
    \/ GenerateImage
    \/ \E i \in 1..MaxPending, u \in ImageUrls \cup {Null} : ImageResolve(i, u)
    \/ \E i \in 1..MaxPending, m \in ErrorMessages : ImageReject(i, m)
    \/ \E t \in ExternalSessionTexts : ExternalSessionsWrite(t)
    \/ HandleStorageEvent

SpecTurn == Init /\ [][NextTurn]_vars

\* The positions the user moves the volume and speed sliders to (the ends of
\* their ranges, in tenths).
SliderPositions ==
    { [volume |-> 0, playbackSpeed |-> 20], [volume |-> 10, playbackSpeed |-> 5] }

\* What another tab writes under the sessions key, a collection with a
\* conversation in it included.
TabSessionTexts ==
    ExternalSessionTexts \cup { StringifySessions(<<OlderSession, OldSession>>) }

\* Two tabs: this one's conversation and settings, and the records another
\* tab writes under both keys.
NextTabs ==
    \/ Mount
    \/ Tick
    \/ \E t \in InputTexts : SetInput(t)
    \/ EnterKey
    \/ \E i \in 1..MaxPending, m \in ErrorMessages : ChatReject(i, m)
    \/ ToggleTheme
    \/ \E st \in SliderPositions : SetAudioSettings(st)
    \/ \E t \in TabSessionTexts : ExternalSessionsWrite(t)
    \/ \E t \in ExternalSettingsTexts : ExternalSettingsWrite(t)
    \/ HandleStorageEvent

SpecTabs == Init /\ [][NextTabs]_vars

\* Sequences of sendUserTurn calls on the sessions the startup leaves, with
\* every answer the backend can give.
NextSend ==
    \/ Mount
    \/ Tick
    \/ \E i \in 1..MaxSessions : SelectSession(i)
    \/ \E t \in InputTexts : SetInput(t)
    \/ EnterKey
    \/ SendButton
    \/ \E i \in 1..MaxPending, r \in {PlainReply, TaggedReply} : ChatResolve(i, r)
    \/ \E i \in 1..MaxPending, m \in ErrorMessages : ChatReject(i, m)
    \/ \E i \in 1..MaxPending, o \in {"audio", "none", "fail"} : SpeechSettles(i, o)
    \/ \E k \in 1..MaxNodes : SourceEnded(k)

\* The same construction with twice the room for messages.
InitSend ==
    /\ phase = "init"
    /\ now = 2
    /\ sessions = <<>>
    /\ activeSessionId = Null
    /\ input = <<>>
    /\ isTyping = FALSE
    /\ isGeneratingImage = FALSE
    /\ errorMsg = Null
    /\ settings = DefaultSettings
    /\ sessionsRef = <<>>
    /\ audioSourceRef = None
    /\ \E p \in InitialStorage : storageMode = p[1] /\ ls = p[2]
    /\ storageEvents = <<>>
    /\ timers = 0
    /\ chats = <<>>
    /\ images = <<>>
    /\ msgRoom = 2 * MaxMsgs
    /\ audioNodes = <<>>
    /\ plays = <<>>

SpecSend == InitSend /\ [][NextSend]_vars

\* The backend chat call of request i settles, one way or the other.
ChatSettles(i) ==
    \/ \E r \in {PlainReply, TaggedReply} : ChatResolve(i, r)
    \/ \E m \in ErrorMessages : ChatReject(i, m)

\* Sequences of sendUserTurn calls in which every backend chat call
\* eventually resolves or rejects.  Nothing is assumed of the speech request.
SpecSendFair ==
    InitSend /\ [][NextSend]_vars /\ \A i \in 1..MaxPending : WF_vars(ChatSettles(i))

\* Playbacks: the automatic one of a reply and those of the narrate button,
\* while the user moves the sliders.
NextAudio ==
    \/ Mount
    \/ Tick
    \/ \E t \in InputTexts : SetInput(t)
    \/ EnterKey
    \/ \E i \in 1..MaxPending : ChatResolve(i, PlainReply)
    \/ \E i \in 1..MaxPending, o \in {"audio", "none", "fail"} : SpeechSettles(i, o)
    \/ \E k \in 1..(2 * MaxMsgs) : PlayMessage(k)
    \/ \E j \in 1..MaxPending, o \in {"audio", "none", "fail"} : PlaySettles(j, o)
    \/ \E k \in 1..MaxNodes : SourceEnded(k)
    \/ \E st \in SliderPositions : SetAudioSettings(st)

SpecAudio == InitSend /\ [][NextAudio]_vars

\* Turns whose replies are rendered in a later task than the one in which
\* they arrive, so that the user can send in between.  A send is an event
\* handler, rendered at once; its render is taken to commit what was queued.
NextStale ==
    \/ Mount
    \/ Tick
    \/ \E t \in InputTexts : SetInput(t)
    \/ EnterKey
    \/ \E i \in 1..MaxPending : ChatResolveQueued(i, PlainReply)
    \/ FlushRender
    \/ \E i \in 1..MaxPending, m \in ErrorMessages : ChatReject(i, m)
    \/ \E i \in 1..MaxPending : SpeechSettles(i, "none")

SpecStale == InitSend /\ [][NextStale]_vars

\* The construction with room for a turn in a session that holds a message.
InitCore ==
    /\ phase = "init"
    /\ now = 2
    /\ sessions = <<>>
    /\ activeSessionId = Null
    /\ input = <<>>
    /\ isTyping = FALSE
    /\ isGeneratingImage = FALSE
    /\ errorMsg = Null
    /\ settings = DefaultSettings
    /\ sessionsRef = <<>>
    /\ audioSourceRef = None
    /\ \E p \in InitialStorage : storageMode = p[1] /\ ls = p[2]
    /\ storageEvents = <<>>
    /\ timers = 0
    /\ chats = <<>>
    /\ images = <<>>
    /\ msgRoom = MaxMsgs + 1
    /\ audioNodes = <<>>
    /\ plays = <<>>

\* The operations of the core on conversations: creations, deletes and
\* selections among sends and image generations.
NextCore ==
    \/ Mount
    \/ Tick
    \/ CreateSession
    \/ DeferredCreate
    \/ \E i \in 1..MaxSessions : SelectSession(i)
    \/ \E i \in 1..MaxSessions : DeleteSession(i)
    \/ \E t \in InputTexts : SetInput(t)
    \/ EnterKey
    \/ \E i \in 1..MaxPending : ChatResolve(i, PlainReply)
    \/ \E i \in 1..MaxPending : SpeechSettles(i, "none")
    \/ GenerateImage
    \/ \E i \in 1..MaxPending, u \in ImageUrls : ImageResolve(i, u)

SpecCore == InitCore /\ [][NextCore]_vars

\* Conversations that mix sent texts and generated images.
NextImage ==
    \/ Mount
    \/ Tick
    \/ \E t \in InputTexts : SetInput(t)
    \/ EnterKey
    \/ \E p \in QuickPrompts : QuickPrompt(p)
    \/ \E i \in 1..MaxPending : ChatResolve(i, PlainReply)
    \/ \E i \in 1..MaxPending, m \in ErrorMessages : ChatReject(i, m)
    \/ \E i \in 1..MaxPending : SpeechSettles(i, "none")
    \/ GenerateImage
    \/ \E i \in 1..MaxPending, u \in ImageUrls \cup {Null} : ImageResolve(i, u)
    \/ \E i \in 1..MaxPending, m \in ErrorMessages : ImageReject(i, m)

SpecImage == InitSend /\ [][NextImage]_vars

\* One turn, with every reply of Replies.
NextReply ==
    \/ Mount
    \/ Tick
    \/ \E t \in InputTexts : SetInput(t)
    \/ EnterKey
    \/ \E i \in 1..MaxPending, r \in Replies : ChatResolve(i, r)
    \/ \E i \in 1..MaxPending : SpeechSettles(i, "none")

SpecReply == Init /\ [][NextReply]_vars

\* Every way the interface starts a sendUserTurn, and every way one ends.
NextTurns ==
    \/ Mount
    \/ Tick
    \/ \E t \in InputTexts : SetInput(t)
    \/ EnterKey
    \/ SendButton
    \/ \E p \in QuickPrompts : QuickPrompt(p)
    \/ \E t \in InputTexts : VoiceResult(t)
    \/ Retry
    \/ DismissError
    \/ \E i \in 1..MaxPending : ChatResolve(i, TaggedReply)
    \/ \E i \in 1..MaxPending, m \in ErrorMessages : ChatReject(i, m)
    \/ \E i \in 1..MaxPending, o \in {"none", "fail"} : SpeechSettles(i, o)

SpecTurns == InitSend /\ [][NextTurns]_vars

-----------------------------------------------------------------------------
(* Steps of handleSend, recognised by what they do to the requests in      *)
(* flight.                                                                 *)

\* A handleSend that passed its preconditions has just suspended at getResponse.
IssueStep == Len(chats') = Len(chats) + 1

\* The getResponse of request i has resolved.
ResolveStep(i) ==
    /\ i \in DOMAIN chats
    /\ chats[i].phase = "chat"
    /\ Len(chats') = Len(chats)
    /\ chats'[i].phase = "tts"

\* The getResponse of request i has rejected.
RejectStep(i) ==
    /\ i \in DOMAIN chats
    /\ chats[i].phase = "chat"
    /\ chats' = RemoveAt(chats, i)

\* The user message of request r is in its session.
HoldsUserMessage(ss, r) ==
    \E k \in DOMAIN MessagesOf(ss, r.sid) :
        /\ MessagesOf(ss, r.sid)[k].role = "user"
        /\ MessagesOf(ss, r.sid)[k].id = r.userId

LastOf(q) == q[Len(q)]

-----------------------------------------------------------------------------
(* Equality of collections as the program observes it: a property that is  *)
(* missing reads as undefined.                                             *)

SourceEq(a, b) ==
    Prop(a, "title") = Prop(b, "title") /\ Prop(a, "uri") = Prop(b, "uri")

MessageEq(a, b) ==
    /\ DOMAIN a = DOMAIN b
    /\ \A k \in DOMAIN a \ {"groundingSources"} : a[k] = b[k]
    /\ "groundingSources" \in DOMAIN a =>
          /\ Len(a.groundingSources) = Len(b.groundingSources)
          /\ \A i \in DOMAIN a.groundingSources :
                SourceEq(a.groundingSources[i], b.groundingSources[i])

SessionEq(a, b) ==
    /\ a.id = b.id /\ a.title = b.title /\ a.createdAt = b.createdAt
    /\ Len(a.messages) = Len(b.messages)
    /\ \A i \in DOMAIN a.messages : MessageEq(a.messages[i], b.messages[i])

CollectionEq(a, b) == Len(a) = Len(b) /\ \A i \in DOMAIN a : SessionEq(a[i], b[i])

-----------------------------------------------------------------------------
(* Claims *)

\* C1: in every reachable state the active session pointer is null or is the
\* id of a session of the in-memory collection.
C1_ActivePointerValid == activeSessionId = Null \/ HasId(sessions, activeSessionId)

\* C2: deleting the only session of the collection, whether or not the
\* active pointer names it, empties the collection and schedules the
\* deferred creation, and the deferred creation run on that empty collection
\* leaves exactly one session, fresh, which the active pointer names.
C2_DeleteOnlyLeavesFresh ==
    /\ [][(\E i \in 1..MaxSessions : DeleteSession(i)) /\ Len(sessions) = 1
            => sessions' = <<>> /\ timers' = timers + 1]_vars
    /\ [][timers' = timers - 1 /\ sessions = <<>>
            => /\ sessions' = <<NewSession(now)>>
               /\ activeSessionId' = NumToString(now)]_vars

\* C3: in sequences of sendUserTurn calls, a call that passes its
\* preconditions appends one user message to the session that is active, the
\* resolution of its backend call appends one model message after it at the
\* end of the same session, and nothing else changes a message sequence: a
\* successful call adds exactly two messages, in the order of completion.
C3_TurnAddsTwo ==
    [][IF IssueStep
       THEN LET r == LastOf(chats')
            IN  /\ r.sid = activeSessionId
                /\ Len(MessagesOf(sessions', r.sid)) = Len(MessagesOf(sessions, r.sid)) + 1
                /\ SubSeq(MessagesOf(sessions', r.sid), 1, Len(MessagesOf(sessions, r.sid)))
                      = MessagesOf(sessions, r.sid)
                /\ LastOf(MessagesOf(sessions', r.sid)).role = "user"
                /\ LastOf(MessagesOf(sessions', r.sid)).id = r.userId
       ELSE IF \E i \in DOMAIN chats : ResolveStep(i)
       THEN \A i \in DOMAIN chats : ResolveStep(i) =>
                LET sid == chats[i].sid
                IN  /\ Len(MessagesOf(sessions', sid)) = Len(MessagesOf(sessions, sid)) + 1
                    /\ SubSeq(MessagesOf(sessions', sid), 1, Len(MessagesOf(sessions, sid)))
                          = MessagesOf(sessions, sid)
                    /\ LastOf(MessagesOf(sessions', sid)).role = "model"
                    /\ HoldsUserMessage(sessions, chats[i])
       ELSE phase = "mounted" => sessions' = sessions]_vars

\* C3, witness: two completed turns in one session.
C3_Witness ==
    \E i \in DOMAIN sessions :
        /\ Len(sessions[i].messages) = 4
        /\ sessions[i].messages[1].role = "user"
        /\ sessions[i].messages[2].role = "model"
        /\ sessions[i].messages[3].role = "user"
        /\ sessions[i].messages[4].role = "model"

\* C4: when the backend chat call of a sendUserTurn rejects, at that step the
\* user message of the call is in its session, the session collection is as
\* it was (no model message is appended), the error state is a non-empty
\* text (the backend's message or the generic fallback) and the chat
\* in-flight flag is false.
C4_RejectKeepsUserTurn ==
    [][\A i \in DOMAIN chats : RejectStep(i) =>
          /\ HoldsUserMessage(sessions', chats[i])
          /\ sessions' = sessions
          /\ Truthy(errorMsg')
          /\ errorMsg' \in (ErrorMessages \cup {GenericChatError})
          /\ isTyping' = FALSE]_vars

\* C4, witness: a rejected call has left its user message last in the active
\* session, with the backend's message shown.
C4_Witness ==
    /\ errorMsg = "Service unavailable"
    /\ ~isTyping
    /\ chats = <<>>
    /\ MessagesOf(sessions, activeSessionId) # <<>>
    /\ LastOf(MessagesOf(sessions, activeSessionId)).role = "user"

\* C5: a sendUserTurn whose text is empty after trimming, or that is called
\* while the active session pointer is null, changes nothing: the session
\* collection, the error state, the in-flight flag and the requests in
\* flight are as before.
C5_SendNoOp ==
    [][(EnterKey \/ SendButton) /\ (Trim(input) = <<>> \/ activeSessionId = Null)
          => UNCHANGED <<sessions, errorMsg, isTyping, chats, input, ls>>]_vars

\* C5, witness: a text is typed while no session is active.
C5_Witness ==
    /\ phase = "mounted"
    /\ activeSessionId = Null
    /\ Trim(input) # <<>>
    /\ chats = <<>>

\* C6: when the backend call of a sendUserTurn ends, either the user message
\* and the model reply are both in the session, or the user message is in
\* the session and the error state is non-empty.
C6_TurnCommittedOrError ==
    [][\A i \in DOMAIN chats :
          /\ ResolveStep(i) =>
                /\ HoldsUserMessage(sessions', chats[i])
                /\ LastOf(MessagesOf(sessions', chats[i].sid)).role = "model"
          /\ RejectStep(i) =>
                /\ HoldsUserMessage(sessions', chats[i])
                /\ Truthy(errorMsg')]_vars

\* C7: when the application starts on a store that holds a non-empty
\* collection and settings, the startup leaves the stored collection in
\* memory, the stored active id if it names a stored session (else the
\* first stored session), and the stored settings.
C7_RestartRestores ==
    [][(phase = "init" /\ phase' = "mounted"
            /\ ls.sessions.tag = "json" /\ Len(ls.sessions.val) > 0
            /\ ls.settings.tag = "json")
          => /\ CollectionEq(sessions', ls.sessions.val)
             /\ activeSessionId' = LoadedActiveId(ls.sessions.val, ls.activeId)
             /\ settings' = ls.settings.val]_vars

\* C8: after every step that changes the in-memory session collection, and
\* while the store's writes do not fail, the collection the store holds
\* equals the in-memory collection.
C8_WriteThrough ==
    [][(sessions' # sessions /\ storageMode = "ok")
          => CollectionEq(getSessions(ls').value, sessions')]_vars

\* C8, witness: a turn has been written through.
C8_Witness ==
    /\ storageMode = "ok"
    /\ \E i \in DOMAIN sessions :
          /\ Len(sessions[i].messages) = 2
          /\ sessions[i].messages[2].role = "model"
          /\ sessions[i].title = <<"h", "i">>
    /\ CollectionEq(getSessions(ls).value, sessions)

\* C9: no operation of the store lets a failure of localStorage out: in
\* every state each of the six operations returns normally, a load yields its
\* default when the access fails, and the startup that calls them is not
\* aborted (it leaves the state in memory as it was).
C9_StoreNeverThrows ==
    /\ ~saveSessions(ls, sessions).threw
    /\ ~getSessions(ls).threw
    /\ ~saveActiveSessionId(ls, activeSessionId).threw
    /\ ~getActiveSessionId(ls).threw
    /\ ~saveSettings(ls, settings).threw
    /\ ~getSettings(ls).threw
    /\ GetItemThrows => /\ getSessions(ls).value = <<>>
                        /\ getSettings(ls).value = None
    /\ phase # "crashed"

\* What the three loads return right after the three saves.
RoundTrip ==
    LET l == saveSettings(saveActiveSessionId(saveSessions(ls, sessions).ls,
                                              activeSessionId).ls, settings).ls
    IN  /\ CollectionEq(getSessions(l).value, sessions)
        /\ getSettings(l).value = Some(settings)
        /\ getActiveSessionId(l).value = activeSessionId

C11_ExternalWriteReplaces ==
    [][(storageEvents # <<>> /\ storageEvents' = Tail(storageEvents)) =>
          LET e == Head(storageEvents)
          IN  IF e.key = SessionsKey
              THEN e.newSessions.tag = "json" =>
                      /\ sessions' = e.newSessions.val
                      /\ settings' = settings
              ELSE e.newSettings.tag = "json" =>
                      /\ settings' = e.newSettings.val
                      /\ sessions' = sessions]_vars

\* C11, witness: another tab's empty collection and another tab's settings
\* have both replaced what this tab held.
C11_Witness ==
    /\ phase = "mounted"
    /\ storageEvents = <<>>
    /\ sessions = <<>>
    /\ settings = OtherSettings
    /\ ls.sessions = StringifySessions(<<>>)

\* C12: no two sendUserTurn calls started from the interface have their
\* backend chat call pending for the same session at the same time.
C12_OneTurnInFlight ==
    \A i, j \in DOMAIN chats :
        (chats[i].sid = chats[j].sid /\ chats[i].phase = "chat" /\ chats[j].phase = "chat")
            => i = j

\* C13: a sendUserTurn that passes its preconditions sets the chat in-flight
\* flag, and, every backend chat call settling eventually, a set flag is
\* eventually cleared.
C13_TypingEventuallyClears ==
    /\ [][IssueStep => isTyping']_vars
    /\ isTyping ~> ~isTyping

\* C14: the chat in-flight flag is set only while a backend chat call is
\* pending: once the model message of a turn is appended the flag is false,
\* whether the speech request that follows has settled or not.
C14_TurnCompleteWithoutSpeech ==
    isTyping => \E i \in DOMAIN chats : chats[i].phase = "chat"

\* The speech request of turn i has settled and handleSend has returned.
SpeechStep(i) ==
    /\ i \in DOMAIN chats
    /\ chats[i].phase = "tts"
    /\ chats' = RemoveAt(chats, i)

\* C15: the step in which the speech request of a turn settles, with audio,
\* with no payload or with a failure, leaves every session and the error
\* state as they were.
C15_SpeechFailureIsolated ==
    [][\A i \in DOMAIN chats : SpeechStep(i) =>
          /\ sessions' = sessions
          /\ errorMsg' = errorMsg]_vars

\* C15, witness: the speech of a turn has ended without audio; the model
\* message is in place and the error of another turn is still shown.
C15_Witness ==
    /\ chats = <<>>
    /\ audioSourceRef = None
    /\ errorMsg = "Service unavailable"
    /\ \E i \in DOMAIN sessions :
          /\ sessions[i].messages # <<>>
          /\ LastOf(sessions[i].messages).role = "model"

\* The positions of the user messages of a session.
UserPositions(s) == {k \in DOMAIN s.messages : s.messages[k].role = "user"}

\* C16: in every state a session without a user message is titled
\* 'New Conversation', and a session with one is titled with the first 30
\* characters of its first user message, whatever else it holds.
C16_TitleFromFirstUserMessage ==
    \A i \in DOMAIN sessions :
        IF UserPositions(sessions[i]) = {}
        THEN sessions[i].title = NewConversation
        ELSE LET k == CHOOSE x \in UserPositions(sessions[i]) :
                          \A y \in UserPositions(sessions[i]) : x <= y
             IN  sessions[i].title = Substring0(sessions[i].messages[k].text, TitleLen)

\* The model message the resolving step of request i appends, and the reply
\* it was made from.
Appended(i) == LastOf(MessagesOf(sessions', chats[i].sid))
ReplyOf(i) == chats'[i].result[1]

\* C17: when the reply is prose, tagged fragment, prose, the appended model
\* message has the fragment, exactly, as psychAnalysis and the two pieces of
\* prose, joined and trimmed, as text.
C17_FragmentExtractedVerbatim ==
    [][\A i \in DOMAIN chats : ResolveStep(i) =>
          \A p \in ProsePrefixes, f \in Fragments, x \in ProseSuffixes :
              ReplyOf(i).text = p \o f \o x =>
                  /\ Appended(i).psychAnalysis = f
                  /\ Appended(i).text = Trim(p \o x)]_vars

\* The text holds an opening brace, later the field name, later a closing brace.
HoldsFragment(text) ==
    \E a, b, c \in DOMAIN text :
        a < b /\ b < c /\ text[a] = "{" /\ text[b] = PI /\ text[c] = "}"

HasWeb(chunk) == "web" \in DOMAIN chunk

\* C19: the groundingSources of the appended model message are the chunks
\* with a web citation, in their order, each as the title and uri of its
\* citation.
C19_GroundingFilter ==
    [][\A i \in DOMAIN chats : ResolveStep(i) =>
          LET webs == SelectSeq(ReplyOf(i).grounding, HasWeb)
              gs == Appended(i).groundingSources
          IN  /\ Len(gs) = Len(webs)
              /\ \A k \in DOMAIN webs :
                    /\ DOMAIN gs[k] = {"title", "uri"}
                    /\ gs[k].title = Prop(webs[k].web, "title")
                    /\ gs[k].uri = Prop(webs[k].web, "uri")]_vars

\* C19, witness: of three chunks the one without citation was dropped, and
\* the first kept source has no title.
C19_Witness ==
    \E i \in DOMAIN chats :
        /\ chats[i].phase = "tts"
        /\ Len(chats[i].result[1].grounding) = 3
        /\ ~HasWeb(chats[i].result[1].grounding[2])
        /\ LastOf(MessagesOf(sessions, chats[i].sid)).groundingSources
              = << [title |-> Undefined, uri |-> "a"], [title |-> "B", uri |-> "b"] >>

\* The step appends exactly one message to the session of image request i, a
\* model message with the image reference url.
ImageAppended(i, url) ==
    LET before == MessagesOf(sessions, images[i].sid)
        after == MessagesOf(sessions', images[i].sid)
    IN  /\ Len(after) = Len(before) + 1
        /\ SubSeq(after, 1, Len(before)) = before
        /\ LastOf(after).role = "model"
        /\ "imageUrl" \in DOMAIN LastOf(after)
        /\ LastOf(after).imageUrl = url

\* C20 as stated: when generateImage returns an image, exactly one model
\* message with that image is appended; when it returns none or throws, the
\* collection is unchanged and the error state is a non-empty text; in the
\* three cases the image in-flight flag is false afterwards.
C20_ImageOutcome ==
    [][\A i \in DOMAIN images :
          /\ \A u \in ImageUrls : ImageResolve(i, u) =>
                ImageAppended(i, u) /\ ~isGeneratingImage'
          /\ ImageResolve(i, Null) =>
                sessions' = sessions /\ Truthy(errorMsg') /\ ~isGeneratingImage'
          /\ \A m \in ErrorMessages : ImageReject(i, m) =>
                sessions' = sessions /\ Truthy(errorMsg') /\ ~isGeneratingImage']_vars

\* C20, amended: the same, the message being appended when the session the
\* call was issued for is still in the collection; when it is not, the
\* collection is left as it was.
C20_ImageOutcomeInKeptSession ==
    [][\A i \in DOMAIN images :
          /\ \A u \in ImageUrls : ImageResolve(i, u) =>
                /\ IF HasId(sessions, images[i].sid)
                   THEN ImageAppended(i, u)
                   ELSE sessions' = sessions
                /\ ~isGeneratingImage'
          /\ ImageResolve(i, Null) =>
                sessions' = sessions /\ Truthy(errorMsg') /\ ~isGeneratingImage'
          /\ \A m \in ErrorMessages : ImageReject(i, m) =>
                sessions' = sessions /\ Truthy(errorMsg') /\ ~isGeneratingImage']_vars

\* C20, witness: one call has appended its image, a later one has ended
\* without image and shows the failure text.
C20_Witness ==
    /\ images = <<>>
    /\ ~isGeneratingImage
    /\ errorMsg = ImageFailed
    /\ \E i \in DOMAIN sessions : \E k \in DOMAIN sessions[i].messages :
          "imageUrl" \in DOMAIN sessions[i].messages[k]

-----------------------------------------------------------------------------
(* Playback *)

\* The nodes that sound.
Sounding(nodes) == {k \in DOMAIN nodes : nodes[k].playing}

\* A step in which source.start(0) is called on a new node.
PlaybackStarts == Len(audioNodes') = Len(audioNodes) + 1

\* C21: in every reachable state at most one node sounds, and the step that
\* starts a playback, whichever request it belongs to and in whatever order
\* the speech requests settle, leaves every node that sounded before silent.
C21_OnePlayback ==
    /\ [](Cardinality(Sounding(audioNodes)) <= 1)
    /\ [][PlaybackStarts =>
            /\ \A k \in Sounding(audioNodes) : ~audioNodes'[k].playing
            /\ Sounding(audioNodes') = {Len(audioNodes')}]_vars

\* C21, witness: three playbacks were started, the narrate requests among
\* them, another request is still in flight, and only the last node sounds.
C21_Witness ==
    /\ Len(audioNodes) = MaxNodes
    /\ Sounding(audioNodes) = {MaxNodes}
    /\ audioSourceRef = Some(MaxNodes)
    /\ plays # <<>>

\* The volume and the speed are where the user has put the sliders.
SlidersSet ==
    [volume |-> settings.volume, playbackSpeed |-> settings.playbackSpeed] \in SliderPositions

\* C22: a playback that starts while the settings are those the user has set
\* with the sliders gets the volume as its gain and the speed as its playback
\* rate, whether it is the playback of a narrate request or the automatic
\* one of a reply whose turn was sent before the sliders were moved.
C22_PlaybackUsesCurrentSettings ==
    [][PlaybackStarts /\ SlidersSet =>
          /\ LastOf(audioNodes').gain = settings.volume
          /\ LastOf(audioNodes').rate = settings.playbackSpeed]_vars

-----------------------------------------------------------------------------
(* Identifiers *)

\* No two elements of the sequence have the same id.
DistinctIds(q) == \A k, l \in DOMAIN q : q[k].id = q[l].id => k = l

\* C23: in every reachable state the messages of a session have distinct
\* ids, the clock readings of handleSend and handleGenerateImage being any
\* sequence that does not decrease.
C23_MessageIdsDistinct == \A i \in DOMAIN sessions : DistinctIds(sessions[i].messages)

\* C24: in every reachable state the sessions of the collection have
\* distinct ids, the clock readings of createNewSession (at startup, from the
\* sidebar, deferred after a delete) being any sequence that does not
\* decrease.
C24_SessionIdsDistinct == DistinctIds(sessions)

-----------------------------------------------------------------------------
(* Retry *)

\* C25: a retry that resends the last user turn of the current session after
\* a failure adds no message to the session, and the contents it hands to
\* the backend are the session's messages as they are, which end with that
\* user turn: the turn is in the session once and in the request once.
C25_RetryResendsOnce ==
    [][Retry /\ IssueStep =>
          LET r == LastOf(chats')
          IN  /\ MessagesOf(sessions', r.sid) = MessagesOf(sessions, r.sid)
              /\ r.contents = History(sessions, r.sid)]_vars

-----------------------------------------------------------------------------
(* The request *)

\* C26: the contents a sendUserTurn hands to the backend are the messages the
\* active session held before the call, role and text, in their order, each
\* once, followed by the new user turn once; also when the call is made
\* before the render of the update before it.
C26_RequestIsHistoryPlusTurn ==
    [][IssueStep =>
          LET r == LastOf(chats')
              h == History(sessions, r.sid)
          IN  /\ Len(r.contents) = Len(h) + 1
              /\ SubSeq(r.contents, 1, Len(h)) = h
              /\ LastOf(r.contents).role = "user"
              /\ HasId(sessions, r.sid) =>
                    LastOf(r.contents).text = LastOf(MessagesOf(sessions', r.sid)).text]_vars

-----------------------------------------------------------------------------
(* Frame of the appends *)

\* The positions of the collection whose session the step changes.
Changed == {p \in DOMAIN sessions : p \notin DOMAIN sessions' \/ sessions'[p] # sessions[p]}

\* The step appends one message to one session of id sid and changes no
\* other session; when no session has that id it changes none.
AppendsOnlyTo(sid) ==
    /\ Len(sessions') = Len(sessions)
    /\ IF HasId(sessions, sid)
       THEN \E p \in DOMAIN sessions :
                /\ sessions[p].id = sid
                /\ Changed = {p}
                /\ Len(sessions'[p].messages) = Len(sessions[p].messages) + 1
                /\ sessions'[p] =
                      [sessions[p] EXCEPT !.messages = Append(@, LastOf(sessions'[p].messages))]
       ELSE Changed = {}

\* C27: the step that appends a model reply or a generated image changes
\* the session that was active when the request was issued and no other,
\* whichever session is active at that step; when that session is no longer
\* in the collection the step changes no session.
C27_AppendToOriginOnly ==
    [][/\ \A i \in DOMAIN chats : ResolveStep(i) => AppendsOnlyTo(chats[i].sid)
       /\ \A i \in DOMAIN images : \A u \in ImageUrls :
             ImageResolve(i, u) => AppendsOnlyTo(images[i].sid)]_vars

-----------------------------------------------------------------------------
(* Order of the appends *)

\* The step puts one message at the end of the session of id sid and leaves
\* the messages before it as they were.
AppendedLast(sid) ==
    /\ Len(MessagesOf(sessions', sid)) = Len(MessagesOf(sessions, sid)) + 1
    /\ SubSeq(MessagesOf(sessions', sid), 1, Len(MessagesOf(sessions, sid)))
          = MessagesOf(sessions, sid)

\* C28: with a chat request and an image request for one session, the step
\* in which either completes puts its message at the end of the session,
\* after whatever the other has appended, and leaves the messages before it
\* as they were: the two messages stand in the order of completion, and
\* neither append drops or overwrites the other's.
C28_CompletionOrder ==
    [][/\ \A i \in DOMAIN chats :
             ResolveStep(i) /\ HasId(sessions, chats[i].sid) =>
                /\ AppendedLast(chats[i].sid)
                /\ "imageUrl" \notin DOMAIN LastOf(MessagesOf(sessions', chats[i].sid))
       /\ \A i \in DOMAIN images : \A u \in ImageUrls :
             ImageResolve(i, u) /\ HasId(sessions, images[i].sid) =>
                /\ AppendedLast(images[i].sid)
                /\ "imageUrl" \in DOMAIN LastOf(MessagesOf(sessions', images[i].sid))]_vars

\* C28, witness: the image completed while the chat request of the turn was
\* in flight, the reply after it: the session holds the user message, the
\* image, the reply.
C28_Witness ==
    \E i \in DOMAIN chats :
        LET ms == MessagesOf(sessions, chats[i].sid)
        IN  /\ chats[i].phase = "tts"
            /\ Len(ms) = 3
            /\ ms[1].role = "user" /\ ms[1].id = chats[i].userId
            /\ "imageUrl" \in DOMAIN ms[2]
            /\ ms[3].role = "model" /\ "imageUrl" \notin DOMAIN ms[3]

-----------------------------------------------------------------------------
(* Deleting *)

\* C29: the delete of the session at position i takes that session out of
\* the collection and leaves the others as they were, in their order; when
\* it was the active one and others remain the pointer becomes the id of the
\* first that remains; when it was not the active one the pointer stays.
C29_DeleteRemovesOne ==
    [][\A i \in 1..MaxSessions :
          DeleteSession(i) =>
             /\ sessions' = RemoveAt(sessions, i)
             /\ activeSessionId = sessions[i].id /\ Len(sessions) > 1 =>
                   activeSessionId' = RemoveAt(sessions, i)[1].id
             /\ activeSessionId # sessions[i].id => activeSessionId' = activeSessionId]_vars

-----------------------------------------------------------------------------
(* Append-only *)

IsPrefix(a, b) == Len(a) <= Len(b) /\ SubSeq(b, 1, Len(a)) = a

\* The session b is the session a, with the messages of a first.
Extends(a, b) == a.id = b.id /\ a.createdAt = b.createdAt /\ IsPrefix(a.messages, b.messages)

\* C30: the steps of createNewSession, deleteSession, the selection,
\* handleSend and handleGenerateImage never remove, replace or reorder a
\* message: a creation leaves every session behind the new one with its
\* messages, a delete leaves the sessions it keeps as they were, and every
\* other of these steps leaves each session in its place with the messages
\* it had as a prefix of those it has.
C30_AppendOnly ==
    [][/\ CreateSession \/ DeferredCreate =>
             /\ Len(sessions') = Len(sessions) + 1
             /\ \A p \in DOMAIN sessions : Extends(sessions[p], sessions'[p + 1])
       /\ \A i \in 1..MaxSessions : DeleteSession(i) =>
             \A q \in DOMAIN sessions' : \E p \in DOMAIN sessions : sessions'[q] = sessions[p]
       /\ /\ phase = "mounted"
          /\ ~(CreateSession \/ DeferredCreate)
          /\ ~(\E i \in 1..MaxSessions : DeleteSession(i))
          /\ ~HandleStorageEvent
          => /\ Len(sessions') = Len(sessions)
             /\ \A p \in DOMAIN sessions : Extends(sessions[p], sessions'[p])]_vars

\* C30, witness: a session that holds a completed turn has been through a
\* creation, which put the new session before it and made that one active.
C30_Witness ==
    /\ Len(sessions) = 2
    /\ DistinctIds(sessions)
    /\ activeSessionId = sessions[1].id
    /\ sessions[1].messages = <<>>
    /\ Len(sessions[2].messages) = 2
    /\ sessions[2].messages[1].role = "user"
    /\ sessions[2].messages[2].role = "model"

====
